---------------------------- MODULE Spec2Model ----------------------------
(***************************************************************************)
(* Model of ci/aggregate_data.py: the merge of several k6 summary          *)
(* documents into one.  A Python dict is a function whose DOMAIN is the    *)
(* set of keys present; an insertion-ordered dict whose order is           *)
(* observable (a document's metrics, the aggregator registry, the merged   *)
(* metrics) is a sequence of [name, data] pairs with distinct names.       *)
(* The numbers of the documents and of the accumulators are integers; a    *)
(* number of the merged values is an exact rational [num, den] in lowest   *)
(* terms, the integer n being n/1, so that 10 and 10.0 are one number as   *)
(* they are for Python's ==.                                               *)
(***************************************************************************)
EXTENDS Integers, Sequences, FiniteSets, TLC

VARIABLES docs, pc, max_duration_ms, next_doc, metric_aggregators,
          merged_metrics, merged, raised

vars == <<docs, pc, max_duration_ms, next_doc, metric_aggregators,
          merged_metrics, merged, raised>>

-----------------------------------------------------------------------------
(* Bounds *)

MaxDocs == 2

\* the most keys a values mapping has in the documents that are merged alone
MaxKeys == 2

-----------------------------------------------------------------------------
(* Python values *)

\* {} : the dict with no key
EmptyDict == <<>>

\* None / a value, for min_val and max_val
None == <<>>

Some(v) == <<v>>

\* d.get(k, default)
Get(d, k, default) == IF k \in DOMAIN d THEN d[k] ELSE default

\* d[k] = v
Put(d, k, v) == [x \in DOMAIN d \cup {k} |-> IF x = k THEN v ELSE d[x]]

Abs(n) == IF n < 0 THEN -n ELSE n

RECURSIVE GCD(_, _)
GCD(a, b) == IF b = 0 THEN a ELSE GCD(b, a % b)

\* n / d for d > 0, exactly
Rat(n, d) ==
    LET g == GCD(Abs(n), d)
    IN  [num |-> n \div g, den |-> d \div g]

\* the integer n as a number of the merged values
Num(n) == Rat(n, 1)

\* a / b for two numbers of the merged values, b > 0
TrueDiv(a, b) == Rat(a.num * b.den, a.den * b.num)

RatPositive(r) == r.num > 0

-----------------------------------------------------------------------------
(* create_metric_aggregator *)

CreateMetricAggregator(m_type, m_contains) ==
    [ type            |-> m_type,
      contains        |-> m_contains,
      count_sum       |-> 0,
      has_count       |-> FALSE,
      passes_sum      |-> 0,
      has_passes      |-> FALSE,
      fails_sum       |-> 0,
      has_fails       |-> FALSE,
      min_val         |-> None,
      has_min         |-> FALSE,
      max_val         |-> None,
      has_max         |-> FALSE,
      avg_sum         |-> 0,
      avg_count       |-> 0,
      med_sum         |-> 0,
      med_count       |-> 0,
      p90_sum         |-> 0,
      p90_count       |-> 0,
      p95_sum         |-> 0,
      p95_count       |-> 0,
      value_sum       |-> 0,
      value_count     |-> 0,
      gauge_sum_min   |-> 0,
      gauge_sum_max   |-> 0,
      gauge_sum_value |-> 0,
      has_rate        |-> (m_type = "counter") ]

-----------------------------------------------------------------------------
(* update_metric_aggregator *)

\* min_val and max_val tested for truth instead of for None: a 0 is replaced
UpdateItem_ZeroIsNone(agg, k, v) ==
    IF k = "count" THEN
        [agg EXCEPT !.count_sum = @ + v, !.has_count = TRUE]
    ELSE IF k = "passes" THEN
        [agg EXCEPT !.passes_sum = @ + v, !.has_passes = TRUE]
    ELSE IF k = "fails" THEN
        [agg EXCEPT !.fails_sum = @ + v, !.has_fails = TRUE]
    ELSE IF k = "min" THEN
        [agg EXCEPT !.min_val = IF @ = None \/ @[1] = 0 \/ v < @[1] THEN Some(v) ELSE @,
                    !.has_min = TRUE]
    ELSE IF k = "max" THEN
        [agg EXCEPT !.max_val = IF @ = None \/ @[1] = 0 \/ v > @[1] THEN Some(v) ELSE @,
                    !.has_max = TRUE]
    ELSE IF k = "avg" THEN
        [agg EXCEPT !.avg_sum = @ + v, !.avg_count = @ + 1]
    ELSE IF k = "med" THEN
        [agg EXCEPT !.med_sum = @ + v, !.med_count = @ + 1]
    ELSE IF k = "p(90)" THEN
        [agg EXCEPT !.p90_sum = @ + v, !.p90_count = @ + 1]
    ELSE IF k = "p(95)" THEN
        [agg EXCEPT !.p95_sum = @ + v, !.p95_count = @ + 1]
    ELSE IF k = "value" THEN
        [agg EXCEPT !.value_sum = @ + v, !.value_count = @ + 1]
    ELSE IF k = "rate" THEN
        agg
    ELSE
        agg

\* the med branch pasted from the avg branch and left adding to avg
UpdateItem_MedIntoAvg(agg, k, v) ==
    IF k = "count" THEN
        [agg EXCEPT !.count_sum = @ + v, !.has_count = TRUE]
    ELSE IF k = "passes" THEN
        [agg EXCEPT !.passes_sum = @ + v, !.has_passes = TRUE]
    ELSE IF k = "fails" THEN
        [agg EXCEPT !.fails_sum = @ + v, !.has_fails = TRUE]
    ELSE IF k = "min" THEN
        [agg EXCEPT !.min_val = IF @ = None \/ v < @[1] THEN Some(v) ELSE @,
                    !.has_min = TRUE]
    ELSE IF k = "max" THEN
        [agg EXCEPT !.max_val = IF @ = None \/ v > @[1] THEN Some(v) ELSE @,
                    !.has_max = TRUE]
    ELSE IF k = "avg" THEN
        [agg EXCEPT !.avg_sum = @ + v, !.avg_count = @ + 1]
    ELSE IF k = "med" THEN
        [agg EXCEPT !.avg_sum = @ + v, !.avg_count = @ + 1]
    ELSE IF k = "p(90)" THEN
        [agg EXCEPT !.p90_sum = @ + v, !.p90_count = @ + 1]
    ELSE IF k = "p(95)" THEN
        [agg EXCEPT !.p95_sum = @ + v, !.p95_count = @ + 1]
    ELSE IF k = "value" THEN
        [agg EXCEPT !.value_sum = @ + v, !.value_count = @ + 1]
    ELSE IF k = "rate" THEN
        agg
    ELSE
        agg

\* a key the chain does not name merged as a plain value instead of dropped
UpdateItem_UnknownAsValue(agg, k, v) ==
    IF k = "count" THEN
        [agg EXCEPT !.count_sum = @ + v, !.has_count = TRUE]
    ELSE IF k = "passes" THEN
        [agg EXCEPT !.passes_sum = @ + v, !.has_passes = TRUE]
    ELSE IF k = "fails" THEN
        [agg EXCEPT !.fails_sum = @ + v, !.has_fails = TRUE]
    ELSE IF k = "min" THEN
        [agg EXCEPT !.min_val = IF @ = None \/ v < @[1] THEN Some(v) ELSE @,
                    !.has_min = TRUE]
    ELSE IF k = "max" THEN
        [agg EXCEPT !.max_val = IF @ = None \/ v > @[1] THEN Some(v) ELSE @,
                    !.has_max = TRUE]
    ELSE IF k = "avg" THEN
        [agg EXCEPT !.avg_sum = @ + v, !.avg_count = @ + 1]
    ELSE IF k = "med" THEN
        [agg EXCEPT !.med_sum = @ + v, !.med_count = @ + 1]
    ELSE IF k = "p(90)" THEN
        [agg EXCEPT !.p90_sum = @ + v, !.p90_count = @ + 1]
    ELSE IF k = "p(95)" THEN
        [agg EXCEPT !.p95_sum = @ + v, !.p95_count = @ + 1]
    ELSE IF k = "value" THEN
        [agg EXCEPT !.value_sum = @ + v, !.value_count = @ + 1]
    ELSE IF k = "rate" THEN
        agg
    ELSE
        [agg EXCEPT !.value_sum = @ + v, !.value_count = @ + 1]

\* one iteration of the loop over values_dict.items()
UpdateItem(agg, k, v) ==
    IF k = "count" THEN
        [agg EXCEPT !.count_sum = @ + v, !.has_count = TRUE]
    ELSE IF k = "passes" THEN
        [agg EXCEPT !.passes_sum = @ + v, !.has_passes = TRUE]
    ELSE IF k = "fails" THEN
        [agg EXCEPT !.fails_sum = @ + v, !.has_fails = TRUE]
    ELSE IF k = "min" THEN
        [agg EXCEPT !.min_val = IF @ = None \/ v < @[1] THEN Some(v) ELSE @,
                    !.has_min = TRUE]
    ELSE IF k = "max" THEN
        [agg EXCEPT !.max_val = IF @ = None \/ v > @[1] THEN Some(v) ELSE @,
                    !.has_max = TRUE]
    ELSE IF k = "avg" THEN
        [agg EXCEPT !.avg_sum = @ + v, !.avg_count = @ + 1]
    ELSE IF k = "med" THEN
        [agg EXCEPT !.med_sum = @ + v, !.med_count = @ + 1]
    ELSE IF k = "p(90)" THEN
        [agg EXCEPT !.p90_sum = @ + v, !.p90_count = @ + 1]
    ELSE IF k = "p(95)" THEN
        [agg EXCEPT !.p95_sum = @ + v, !.p95_count = @ + 1]
    ELSE IF k = "value" THEN
        [agg EXCEPT !.value_sum = @ + v, !.value_count = @ + 1]
    ELSE IF k = "rate" THEN
        agg
    ELSE
        agg

\* the loop over values_dict.items(); keys are distinct, so each is visited once
RECURSIVE UpdateItems(_, _, _)
UpdateItems(agg, values_dict, keys) ==
    IF keys = {} THEN agg
    ELSE LET k == CHOOSE x \in keys : TRUE
         IN  UpdateItems(UpdateItem(agg, k, values_dict[k]), values_dict, keys \ {k})

\* the gauge branch without its return: the loop below it runs too
UpdateMetricAggregator_FallThrough(agg, values_dict) ==
    UpdateItems(
        IF agg.type = "gauge" THEN
            [agg EXCEPT !.gauge_sum_min   = @ + Get(values_dict, "min", 0),
                        !.gauge_sum_max   = @ + Get(values_dict, "max", 0),
                        !.gauge_sum_value = @ + Get(values_dict, "value", 0)]
        ELSE agg,
        values_dict, DOMAIN values_dict)

UpdateMetricAggregator(agg, values_dict) ==
    IF agg.type = "gauge" THEN
        [agg EXCEPT !.gauge_sum_min   = @ + Get(values_dict, "min", 0),
                    !.gauge_sum_max   = @ + Get(values_dict, "max", 0),
                    !.gauge_sum_value = @ + Get(values_dict, "value", 0)]
    ELSE
        UpdateItems(agg, values_dict, DOMAIN values_dict)

-----------------------------------------------------------------------------
(* finalize_metric_aggregator *)

\* if cond: d[k] = v
PutIf(cond, d, k, v) == IF cond THEN Put(d, k, v) ELSE d

\* the summed fields emitted on the truth of the sum instead of the flag
ValuesBeforeRate_Truthy(agg) ==
    LET g   == agg.type = "gauge"
        g1  == PutIf(g, EmptyDict, "min", Num(agg.gauge_sum_min))
        g2  == PutIf(g, g1, "max", Num(agg.gauge_sum_max))
        g3  == PutIf(g, g2, "value", Num(agg.gauge_sum_value))
        s1  == PutIf(agg.count_sum # 0, g3, "count", Num(agg.count_sum))
        s2  == PutIf(agg.passes_sum # 0, s1, "passes", Num(agg.passes_sum))
        s3  == PutIf(agg.fails_sum # 0, s2, "fails", Num(agg.fails_sum))
        m1  == PutIf(agg.has_min, s3, "min", Num(agg.min_val[1]))
        m2  == PutIf(agg.has_max, m1, "max", Num(agg.max_val[1]))
        a1  == PutIf(agg.avg_count > 0, m2, "avg", Rat(agg.avg_sum, agg.avg_count))
        a2  == PutIf(agg.med_count > 0, a1, "med", Rat(agg.med_sum, agg.med_count))
        a3  == PutIf(agg.p90_count > 0, a2, "p(90)", Rat(agg.p90_sum, agg.p90_count))
        a4  == PutIf(agg.p95_count > 0, a3, "p(95)", Rat(agg.p95_sum, agg.p95_count))
    IN  PutIf(agg.value_count > 0, a4, "value", Rat(agg.value_sum, agg.value_count))

\* final_values as it stands before the rate is computed
ValuesBeforeRate(agg) ==
    LET g   == agg.type = "gauge"
        g1  == PutIf(g, EmptyDict, "min", Num(agg.gauge_sum_min))
        g2  == PutIf(g, g1, "max", Num(agg.gauge_sum_max))
        g3  == PutIf(g, g2, "value", Num(agg.gauge_sum_value))
        s1  == PutIf(agg.has_count, g3, "count", Num(agg.count_sum))
        s2  == PutIf(agg.has_passes, s1, "passes", Num(agg.passes_sum))
        s3  == PutIf(agg.has_fails, s2, "fails", Num(agg.fails_sum))
        m1  == PutIf(agg.has_min, s3, "min", Num(agg.min_val[1]))
        m2  == PutIf(agg.has_max, m1, "max", Num(agg.max_val[1]))
        a1  == PutIf(agg.avg_count > 0, m2, "avg", Rat(agg.avg_sum, agg.avg_count))
        a2  == PutIf(agg.med_count > 0, a1, "med", Rat(agg.med_sum, agg.med_count))
        a3  == PutIf(agg.p90_count > 0, a2, "p(90)", Rat(agg.p90_sum, agg.p90_count))
        a4  == PutIf(agg.p95_count > 0, a3, "p(95)", Rat(agg.p95_sum, agg.p95_count))
    IN  PutIf(agg.value_count > 0, a4, "value", Rat(agg.value_sum, agg.value_count))

\* the rate branch without the test of the type
RateBranch_AnyType(agg, total_time_s) ==
    agg.has_count /\ RatPositive(total_time_s)

\* the condition of the rate branch
RateBranch(agg, total_time_s) ==
    agg.has_rate /\ agg.has_count /\ RatPositive(total_time_s)

\* final_values["count"] raises KeyError when the key was not emitted
FinalizeRaises(agg, total_time_s) ==
    RateBranch(agg, total_time_s) /\ "count" \notin DOMAIN ValuesBeforeRate(agg)

FinalizeMetricAggregator(agg, total_time_s) ==
    LET fv == ValuesBeforeRate(agg)
        final_values ==
            IF RateBranch(agg, total_time_s) /\ "count" \in DOMAIN fv
            THEN Put(fv, "rate", TrueDiv(fv["count"], total_time_s))
            ELSE fv
    IN  [type |-> agg.type, contains |-> agg.contains, values |-> final_values]

-----------------------------------------------------------------------------
(* combine_all_docs *)

\* the loop assigning every duration it meets: the last one is kept
ScanDurations_Last(ds, i, cur) ==
    IF ds = <<>> THEN cur
    ELSE Get(Get(ds[Len(ds)], "state", EmptyDict), "testRunDurationMs", 0)

\* the durations added up, as for runs one after the other
RECURSIVE ScanDurations_Sum(_, _, _)
ScanDurations_Sum(ds, i, cur) ==
    IF i > Len(ds) THEN cur
    ELSE ScanDurations_Sum(ds, i + 1,
             cur + Get(Get(ds[i], "state", EmptyDict), "testRunDurationMs", 0))

\* step 1: the loop that finds the maximum testRunDurationMs
RECURSIVE ScanDurations(_, _, _)
ScanDurations(ds, i, cur) ==
    IF i > Len(ds) THEN cur
    ELSE LET state == Get(ds[i], "state", EmptyDict)
             dur   == Get(state, "testRunDurationMs", 0)
         IN  ScanDurations(ds, i + 1, IF dur > cur THEN dur ELSE cur)

MaxDurationMs(ds) == ScanDurations(ds, 1, 0)

\* the duration left in milliseconds
TotalTimeS_Millis(ms) == Rat(ms, 1)

TotalTimeS(ms) == Rat(ms, 1000)

\* position of m_name in the registry, 0 when it is not there
RegistryIndex(reg, m_name) ==
    IF \E k \in 1..Len(reg) : reg[k].name = m_name
    THEN CHOOSE k \in 1..Len(reg) : reg[k].name = m_name
    ELSE 0

\* type and contains taken from every document instead of the first only
IngestMetric_LastType(reg, m_name, m_data) ==
    LET m_type      == Get(m_data, "type", "")
        m_contains  == Get(m_data, "contains", "")
        reg1        == IF RegistryIndex(reg, m_name) = 0
                       THEN Append(reg, [name |-> m_name,
                                         agg  |-> CreateMetricAggregator(m_type, m_contains)])
                       ELSE reg
        k           == RegistryIndex(reg1, m_name)
        values_dict == Get(m_data, "values", EmptyDict)
    IN  [reg1 EXCEPT ![k].agg =
            UpdateMetricAggregator([@ EXCEPT !.type = m_type,
                                             !.contains = m_contains,
                                             !.has_rate = (m_type = "counter")],
                                   values_dict)]

\* step 2, one iteration of the inner loop: look up or create, then update
IngestMetric(reg, m_name, m_data) ==
    LET m_type      == Get(m_data, "type", "")
        m_contains  == Get(m_data, "contains", "")
        reg1        == IF RegistryIndex(reg, m_name) = 0
                       THEN Append(reg, [name |-> m_name,
                                         agg  |-> CreateMetricAggregator(m_type, m_contains)])
                       ELSE reg
        k           == RegistryIndex(reg1, m_name)
        values_dict == Get(m_data, "values", EmptyDict)
    IN  [reg1 EXCEPT ![k].agg = UpdateMetricAggregator(@, values_dict)]

RECURSIVE IngestMetrics(_, _, _)
IngestMetrics(reg, metrics, j) ==
    IF j > Len(metrics) THEN reg
    ELSE IngestMetrics(IngestMetric(reg, metrics[j].name, metrics[j].data),
                       metrics, j + 1)

\* step 2, one iteration of the outer loop
IngestDoc(reg, doc) == IngestMetrics(reg, Get(doc, "metrics", <<>>), 1)

RECURSIVE IngestDocs(_, _, _)
IngestDocs(reg, ds, i) ==
    IF i > Len(ds) THEN reg ELSE IngestDocs(IngestDoc(reg, ds[i]), ds, i + 1)

\* step 3
FinalizeAll(reg, total_time_s) ==
    [k \in 1..Len(reg) |->
        [name |-> reg[k].name,
         data |-> FinalizeMetricAggregator(reg[k].agg, total_time_s)]]

AnyFinalizeRaises(reg, total_time_s) ==
    \E k \in 1..Len(reg) : FinalizeRaises(reg[k].agg, total_time_s)

\* step 4
BuildMergedDoc(first, ms, metrics) ==
    [ root_group |-> Get(first, "root_group", EmptyDict),
      options    |-> Get(first, "options", EmptyDict),
      state      |-> Put(Get(first, "state", EmptyDict), "testRunDurationMs", ms),
      metrics    |-> metrics ]

\* the whole function, for a batch on which it returns
CombineAllDocs(ds) ==
    IF ds = <<>> THEN EmptyDict
    ELSE LET ms == MaxDurationMs(ds)
         IN  BuildMergedDoc(ds[1], ms,
                 FinalizeAll(IngestDocs(<<>>, ds, 1), TotalTimeS(ms)))

-----------------------------------------------------------------------------
(* Input documents *)

\* the keys of values that update_metric_aggregator names
RecognizedKeys ==
    {"count", "passes", "fails", "min", "max", "avg", "med", "p(90)", "p(95)",
     "value", "rate"}

Metric(m_name, m_data) == [name |-> m_name, data |-> m_data]

\* every batch of at most MaxDocs documents drawn from S
Batches(S) == UNION {[1..n -> S] : n \in 0..MaxDocs}

\* documents that differ in state, root_group and options
StateDocs ==
    LET States == { ("testRunDurationMs" :> 0),
                    ("testRunDurationMs" :> 1000),
                    ("testRunDurationMs" :> 2000) @@ ("isStdOutTTY" :> "false"),
                    ("testRunDurationMs" :> 500) @@ ("isStdOutTTY" :> "true"),
                    ("isStdOutTTY" :> "true"),
                    EmptyDict }
        Reqs   == <<Metric("reqs", ("type" :> "counter") @@ ("contains" :> "default")
                                   @@ ("values" :> ("count" :> 100)))>>
        Tops   == { ("root_group" :> [name |-> "A"]) @@ ("options" :> [noColor |-> "true"])
                        @@ ("metrics" :> Reqs),
                    ("root_group" :> [name |-> "B"]) @@ ("metrics" :> Reqs),
                    ("options" :> [noColor |-> "false"]),
                    EmptyDict }
    IN  Tops \cup {t @@ ("state" :> s) : t \in Tops, s \in States}

\* documents whose metric "vus" is a gauge, or is declared something else
GaugeDocs ==
    LET Partial == UNION {[K -> {2, 5}] : K \in SUBSET {"min", "max", "value"}}
        Whole   == { [min |-> 5, max |-> 20, value |-> 7],
                     [min |-> 2, max |-> 25, value |-> 3],
                     [min |-> 1, max |-> 9, value |-> 4, count |-> 3, avg |-> 6,
                      rate |-> 8, thresholds |-> 1] }
        Others  == { [count |-> 3, passes |-> 1], [min |-> 4, value |-> 6, med |-> 2] }
        Gauges  == {("type" :> "gauge") @@ ("contains" :> "default") @@ ("values" :> v)
                        : v \in Partial \cup Whole \cup Others}
                   \cup {("type" :> "gauge")}
        Mixed   == {("type" :> t) @@ ("contains" :> "time") @@ ("values" :> v)
                        : t \in {"counter", "trend"}, v \in Whole}
        State   == ("state" :> ("testRunDurationMs" :> 1000))
    IN  {State @@ ("metrics" :> <<Metric("vus", e)>>) : e \in Gauges \cup Mixed}
        \cup {State @@ ("metrics" :> <<Metric("reqs", e), Metric("vus", g)>>)
                 : e \in Mixed, g \in {("type" :> "gauge") @@ ("values" :> v) : v \in Whole}}
        \cup {State, State @@ ("metrics" :> <<>>)}

\* documents whose metric "reqs" carries summed fields and stray rates, under
\* every kind of run duration
CounterDocs ==
    LET Summed  == { [count |-> 100], [count |-> 50], [count |-> 0],
                     [count |-> 50, rate |-> 7], [rate |-> 7],
                     [passes |-> 3, fails |-> 0],
                     [passes |-> 1, fails |-> 2, count |-> 3],
                     [fails |-> 0], EmptyDict }
        Entries == {("type" :> "counter") @@ ("contains" :> "default") @@ ("values" :> v)
                        : v \in Summed}
                   \cup { ("type" :> "counter"),
                          ("type" :> "rate") @@ ("values" :> [passes |-> 3, fails |-> 1, rate |-> 1]),
                          ("type" :> "rate") @@ ("values" :> [count |-> 100]),
                          ("type" :> "trend") @@ ("values" :> [count |-> 50, rate |-> 7]),
                          ("type" :> "gauge") @@ ("values" :> [count |-> 100, passes |-> 2]),
                          ("values" :> [count |-> 100]) }
        Timed   == { EmptyDict,
                     ("state" :> ("testRunDurationMs" :> 1000)),
                     ("state" :> ("testRunDurationMs" :> 3000)) }
        Untimed == { ("state" :> ("testRunDurationMs" :> 0)),
                     ("state" :> ("isStdOutTTY" :> "false")) }
    IN  {s @@ ("metrics" :> <<Metric("reqs", e)>>) : s \in Timed, e \in Entries}
        \cup {s @@ ("metrics" :> <<Metric("reqs", ("type" :> "counter") @@ ("values" :> v))>>)
                 : s \in Untimed, v \in {[count |-> 100], [rate |-> 7]}}
        \cup Timed \cup Untimed

\* documents whose metric "req_dur" carries extremes and averaged fields,
\* negative and zero values among them
TrendDocs ==
    LET Extremes == UNION {[K -> {-3, 0, 4}] : K \in {{"min"}, {"max"}, {"min", "max"}}}
        Means    == UNION {[{f} -> {-3, 4}] : f \in {"avg", "med", "p(90)", "p(95)", "value"}}
        Whole    == { [avg |-> 10, min |-> 5, max |-> 20] @@ ("p(95)" :> 18),
                      [avg |-> 30, min |-> 2, max |-> 25] @@ ("p(95)" :> 22),
                      [avg |-> 1, med |-> 2, value |-> 5] @@ ("p(90)" :> 3) @@ ("p(95)" :> 4),
                      [avg |-> 0, value |-> 0],
                      EmptyDict }
        Entries  == {("type" :> "trend") @@ ("contains" :> "time") @@ ("values" :> v)
                         : v \in Extremes \cup Means \cup Whole}
                    \cup { ("type" :> "gauge") @@ ("values" :> [min |-> 4, max |-> 4, value |-> 4, avg |-> 4]),
                           ("values" :> [min |-> 0, max |-> 0, med |-> 4]) }
        State    == ("state" :> ("testRunDurationMs" :> 1000))
    IN  {State @@ ("metrics" :> <<Metric("req_dur", e)>>) : e \in Entries} \cup {State}

\* documents that list up to two of three metric names in either order and
\* declare them with differing type and contains
RegistryDocs ==
    LET Entries == { ("type" :> "gauge") @@ ("contains" :> "default")
                         @@ ("values" :> [min |-> 1, max |-> 4, value |-> 3, count |-> 2]),
                     ("type" :> "counter") @@ ("contains" :> "time")
                         @@ ("values" :> [min |-> 2, max |-> 2, value |-> 6, count |-> 5]),
                     ("values" :> [min |-> 3, value |-> 1]) }
        Names   == {"reqs", "vus"}
        State   == ("state" :> ("testRunDurationMs" :> 1000))
        Third   == Metric("req_dur", ("type" :> "trend") @@ ("contains" :> "time")
                                     @@ ("values" :> [min |-> 7, avg |-> 8]))
    IN  {State @@ ("metrics" :> <<Metric(n, e)>>) : n \in Names, e \in Entries}
        \cup {State @@ ("metrics" :> <<Metric(n1, e1), Metric(n2, e2)>>)
                 : <<n1, n2>> \in {<<"reqs", "vus">>, <<"vus", "reqs">>},
                   <<e1, e2>> \in Entries \X Entries}
        \cup {State @@ ("metrics" :> <<Third, Metric("reqs", e)>>) : e \in Entries}
        \cup {State @@ ("metrics" :> <<Metric("vus", e), Third>>) : e \in Entries}
        \cup {State}

\* documents with sections, entry fields and values fields missing, and with
\* keys in values that the aggregator does not know
PermissiveDocs ==
    LET Values  == { [count |-> 100, thresholds |-> 1], [count |-> 50],
                     [thresholds |-> 1, extra |-> 2],
                     [avg |-> 4, min |-> 1, extra |-> 9],
                     [min |-> 2, value |-> 3, max |-> 5, extra |-> 9],
                     EmptyDict }
        Typed   == {("type" :> t) @@ ("contains" :> "default") @@ ("values" :> v)
                        : t \in {"counter", "gauge"}, v \in Values}
        Partial == { ("type" :> "counter"), ("contains" :> "time"), EmptyDict,
                     ("type" :> "gauge") @@ ("values" :> [count |-> 100, thresholds |-> 1]),
                     ("values" :> [count |-> 100, thresholds |-> 1]),
                     ("contains" :> "time") @@ ("values" :> [avg |-> 4, min |-> 1, extra |-> 9]) }
        State   == ("state" :> ("testRunDurationMs" :> 1000))
        Bare    == { EmptyDict, ("state" :> EmptyDict), ("state" :> [isStdOutTTY |-> "true"]) }
        Second  == Metric("vus", ("type" :> "gauge") @@ ("values" :> [value |-> 3, extra |-> 9]))
    IN  {State @@ ("metrics" :> <<Metric("reqs", e)>>) : e \in Typed \cup Partial}
        \cup {b @@ ("metrics" :> <<Metric("reqs", e)>>)
                 : b \in Bare, e \in {("values" :> [count |-> 100, thresholds |-> 1])}}
        \cup {State @@ ("metrics" :> <<Metric("reqs", e), Second>>)
                 : e \in {("type" :> "counter") @@ ("values" :> [count |-> 50]), EmptyDict}}
        \cup Bare \cup {State, State @@ ("metrics" :> <<>>)}

\* documents merged alone or with a copy of themselves: one metric of any
\* type whose values hold up to MaxKeys keys, known or not, under every kind
\* of state; and documents with two metrics
SingleDocs ==
    LET KeySets == {K \in SUBSET (RecognizedKeys \cup {"thresholds"}) : Cardinality(K) <= MaxKeys}
        Values  == UNION {[K -> {0, 3}] : K \in KeySets}
        Entries == {("type" :> t) @@ ("contains" :> "default") @@ ("values" :> v)
                        : t \in {"counter", "gauge", "trend"}, v \in Values}
                   \cup {("values" :> v) : v \in Values}
                   \cup {("type" :> t) : t \in {"counter", "gauge", "trend"}}
        States  == { EmptyDict,
                     ("state" :> EmptyDict),
                     ("state" :> [testRunDurationMs |-> 0]),
                     ("state" :> [testRunDurationMs |-> 1000]),
                     ("state" :> [testRunDurationMs |-> 3000, isStdOutTTY |-> "true"]) }
        Reqs    == Metric("reqs", ("type" :> "counter") @@ ("contains" :> "default")
                                  @@ ("values" :> [count |-> 100, rate |-> 7]))
        Vus     == Metric("vus", ("type" :> "gauge") @@ ("contains" :> "default")
                                 @@ ("values" :> [value |-> 3, min |-> 1, max |-> 5]))
    IN  {s @@ ("metrics" :> <<Metric("m", e)>>) : s \in States, e \in Entries}
        \cup {s @@ ("metrics" :> ms) : s \in States, ms \in {<<Reqs, Vus>>, <<Vus, Reqs>>, <<>>}}
        \cup States

-----------------------------------------------------------------------------
(* The run of combine_all_docs on one batch *)

TypeOK ==
    /\ pc \in {"start", "aggregate", "build", "done", "raised"}
    /\ next_doc \in 1..(MaxDocs + 1)
    /\ raised \in BOOLEAN

InitWith(S) ==
    /\ docs \in Batches(S)
    /\ pc = "start"
    /\ max_duration_ms = 0
    /\ next_doc = 1
    /\ metric_aggregators = <<>>
    /\ merged_metrics = <<>>
    /\ merged = EmptyDict
    /\ raised = FALSE

Init == InitWith(StateDocs)

\* if not docs: return {}
ReturnEmpty ==
    /\ pc = "start"
    /\ docs = <<>>
    /\ merged' = EmptyDict
    /\ pc' = "done"
    /\ UNCHANGED <<docs, max_duration_ms, next_doc, metric_aggregators,
                   merged_metrics, raised>>

\* step 1
ResolveDuration ==
    /\ pc = "start"
    /\ docs # <<>>
    /\ max_duration_ms' = MaxDurationMs(docs)
    /\ pc' = "aggregate"
    /\ UNCHANGED <<docs, next_doc, metric_aggregators, merged_metrics, merged, raised>>

\* step 2, one document
IngestNextDoc ==
    /\ pc = "aggregate"
    /\ next_doc <= Len(docs)
    /\ metric_aggregators' = IngestDoc(metric_aggregators, docs[next_doc])
    /\ next_doc' = next_doc + 1
    /\ UNCHANGED <<docs, pc, max_duration_ms, merged_metrics, merged, raised>>

\* step 3
FinalizeAggregators ==
    /\ pc = "aggregate"
    /\ next_doc > Len(docs)
    /\ IF AnyFinalizeRaises(metric_aggregators, TotalTimeS(max_duration_ms))
       THEN /\ raised' = TRUE
            /\ pc' = "raised"
            /\ UNCHANGED merged_metrics
       ELSE /\ merged_metrics' = FinalizeAll(metric_aggregators, TotalTimeS(max_duration_ms))
            /\ pc' = "build"
            /\ UNCHANGED raised
    /\ UNCHANGED <<docs, max_duration_ms, next_doc, metric_aggregators, merged>>

\* step 4
BuildMerged ==
    /\ pc = "build"
    /\ merged' = BuildMergedDoc(docs[1], max_duration_ms, merged_metrics)
    /\ pc' = "done"
    /\ UNCHANGED <<docs, max_duration_ms, next_doc, metric_aggregators,
                   merged_metrics, raised>>

Next ==
    \/ ReturnEmpty
    \/ ResolveDuration
    \/ IngestNextDoc
    \/ FinalizeAggregators
    \/ BuildMerged

Spec == Init /\ [][Next]_vars

-----------------------------------------------------------------------------
(* What a batch reports, read off the documents themselves *)

NamesOf(doc) ==
    LET ms == Get(doc, "metrics", <<>>) IN {ms[j].name : j \in 1..Len(ms)}

EntryOf(doc, name) ==
    LET ms == Get(doc, "metrics", <<>>)
    IN  ms[CHOOSE j \in 1..Len(ms) : ms[j].name = name].data

ValuesOf(doc, name) == Get(EntryOf(doc, name), "values", EmptyDict)

AllNames(ds) == UNION {NamesOf(ds[i]) : i \in 1..Len(ds)}

\* the documents that contain the metric, and those that report field f for it
Carriers(ds, name) == {i \in 1..Len(ds) : name \in NamesOf(ds[i])}

Reporting(ds, name, f) ==
    {i \in Carriers(ds, name) : f \in DOMAIN ValuesOf(ds[i], name)}

Least(S) == CHOOSE m \in S : \A x \in S : m <= x

Greatest(S) == CHOOSE m \in S : \A x \in S : m >= x

\* the sum of field f (0 when absent) over the documents I
RECURSIVE FieldSum(_, _, _, _)
FieldSum(ds, name, f, I) ==
    IF I = {} THEN 0
    ELSE LET i == Least(I)
         IN  Get(ValuesOf(ds[i], name), f, 0) + FieldSum(ds, name, f, I \ {i})

FieldSet(ds, name, f) == {ValuesOf(ds[i], name)[f] : i \in Reporting(ds, name, f)}

\* type and contains declared by the first document that introduces the name
Introducer(ds, name) == Least(Carriers(ds, name))

DeclaredType(ds, name) == Get(EntryOf(ds[Introducer(ds, name)], name), "type", "")

DeclaredContains(ds, name) ==
    Get(EntryOf(ds[Introducer(ds, name)], name), "contains", "")

DurationOf(doc) == Get(Get(doc, "state", EmptyDict), "testRunDurationMs", 0)

LongestDuration(ds) == Greatest({DurationOf(ds[i]) : i \in 1..Len(ds)})

\* the merged document's entry for a name
MergedNames == {merged.metrics[k].name : k \in 1..Len(merged.metrics)}

MergedEntry(name) ==
    merged.metrics[CHOOSE k \in 1..Len(merged.metrics) : merged.metrics[k].name = name].data

MergedValues(name) == MergedEntry(name).values

\* the merged number r is n / d
IsNumber(r, n, d) == r.den > 0 /\ r.num * d = n * r.den

Returned == pc = "done" /\ docs # <<>>

InitGauge == InitWith(GaugeDocs)

SpecGauge == InitGauge /\ [][Next]_vars

InitCounter == InitWith(CounterDocs)

SpecCounter == InitCounter /\ [][Next]_vars

InitTrend == InitWith(TrendDocs)

SpecTrend == InitTrend /\ [][Next]_vars

InitRegistry == InitWith(RegistryDocs)

SpecRegistry == InitRegistry /\ [][Next]_vars

InitPermissive == InitWith(PermissiveDocs)

SpecPermissive == InitPermissive /\ [][Next]_vars

\* the batches [], [d] and [d, d]
InitSingle ==
    /\ docs \in {<<>>} \cup {<<d>> : d \in SingleDocs} \cup {<<d, d>> : d \in SingleDocs}
    /\ pc = "start"
    /\ max_duration_ms = 0
    /\ next_doc = 1
    /\ metric_aggregators = <<>>
    /\ merged_metrics = <<>>
    /\ merged = EmptyDict
    /\ raised = FALSE

SpecSingle == InitSingle /\ [][Next]_vars

\* the stepwise run returns what the function returns
RunAgrees == pc = "done" => merged = CombineAllDocs(docs)

-----------------------------------------------------------------------------
(* C1: every metric a batch introduces as a gauge is merged to exactly the  *)
(* keys min, max and value, each the sum over the documents containing the  *)
(* metric of that document's field, 0 where the field is absent, whatever   *)
(* other keys or types those documents carry.                               *)

GaugeIsThreeSums ==
    Returned =>
        \A name \in AllNames(docs) :
            DeclaredType(docs, name) = "gauge" =>
                /\ name \in MergedNames
                /\ DOMAIN MergedValues(name) = {"min", "max", "value"}
                /\ \A f \in {"min", "max", "value"} :
                       IsNumber(MergedValues(name)[f],
                                FieldSum(docs, name, f, Carriers(docs, name)), 1)

\* the spec's example, followed by a document that declares the metric a
\* counter and carries keys a gauge does not use
GaugeIsThreeSumsWitness ==
    /\ Returned
    /\ Len(docs) = 2
    /\ "vus" \in NamesOf(docs[1]) /\ "vus" \in NamesOf(docs[2])
    /\ EntryOf(docs[1], "vus").type = "gauge"
    /\ EntryOf(docs[2], "vus").type = "counter"
    /\ ValuesOf(docs[1], "vus") = [min |-> 5, max |-> 20, value |-> 7]
    /\ ValuesOf(docs[2], "vus") = [min |-> 2, max |-> 25, value |-> 3]
    /\ MergedValues("vus") = [min |-> Num(7), max |-> Num(45), value |-> Num(10)]

-----------------------------------------------------------------------------
\* what the documents must hold for a metric to be given a rate
RateCondition(ds, name) ==
    /\ DeclaredType(ds, name) = "counter"
    /\ Reporting(ds, name, "count") # {}
    /\ LongestDuration(ds) > 0

(* C2: a merged metric has a rate exactly when it was introduced as a       *)
(* counter, some document reported its count and the longest run duration   *)
(* is above 0; the rate is then the summed count divided by that duration   *)
(* in seconds.  A rate carried by a document never reaches the output.      *)

RateIsDerived ==
    Returned =>
        \A name \in AllNames(docs) :
            /\ name \in MergedNames
            /\ "rate" \in DOMAIN MergedValues(name) <=> RateCondition(docs, name)
            /\ RateCondition(docs, name) =>
                   IsNumber(MergedValues(name)["rate"],
                            FieldSum(docs, name, "count", Reporting(docs, name, "count")) * 1000,
                            LongestDuration(docs))

\* two counter documents, the longer one carrying a stray rate: 150 / 3.0 s
RateIsDerivedWitness ==
    /\ Returned
    /\ Len(docs) = 2
    /\ DurationOf(docs[1]) = 1000 /\ DurationOf(docs[2]) = 3000
    /\ "reqs" \in NamesOf(docs[1]) /\ "reqs" \in NamesOf(docs[2])
    /\ DeclaredType(docs, "reqs") = "counter"
    /\ ValuesOf(docs[1], "reqs") = [count |-> 100]
    /\ ValuesOf(docs[2], "reqs") = [count |-> 50, rate |-> 7]
    /\ MergedValues("reqs") = [count |-> Num(150), rate |-> Num(50)]

-----------------------------------------------------------------------------
(* C5: for a metric not introduced as a gauge, each of count, passes and    *)
(* fails is in the merged values exactly when some document containing the  *)
(* metric carries that key, and is then the sum over the documents that     *)
(* carry it: a key only ever reported as 0 appears as 0, a key no document  *)
(* reports does not appear.                                                 *)

SumsIffReported ==
    Returned =>
        \A name \in AllNames(docs) :
            DeclaredType(docs, name) # "gauge" =>
                \A f \in {"count", "passes", "fails"} :
                    /\ f \in DOMAIN MergedValues(name) <=> Reporting(docs, name, f) # {}
                    /\ Reporting(docs, name, f) # {} =>
                           IsNumber(MergedValues(name)[f],
                                    FieldSum(docs, name, f, Reporting(docs, name, f)), 1)

\* count and fails are only ever reported as 0, passes by no document
SumsIffReportedWitness ==
    /\ Returned
    /\ Len(docs) = 2
    /\ "reqs" \in NamesOf(docs[1]) /\ "reqs" \in NamesOf(docs[2])
    /\ DeclaredType(docs, "reqs") = "counter"
    /\ ValuesOf(docs[1], "reqs") = [count |-> 0]
    /\ ValuesOf(docs[2], "reqs") = [fails |-> 0]
    /\ MergedValues("reqs").count = Num(0)
    /\ MergedValues("reqs").fails = Num(0)
    /\ "passes" \notin DOMAIN MergedValues("reqs")

-----------------------------------------------------------------------------
(* C6: for a metric not introduced as a gauge, the merged min (max) is      *)
(* present exactly when some document reported one, and is then the         *)
(* smallest (largest) value any document reported, in whatever order the    *)
(* documents come and also when that value is 0 or negative.                *)

ExtremaAreGlobal ==
    Returned =>
        \A name \in AllNames(docs) :
            DeclaredType(docs, name) # "gauge" =>
                /\ "min" \in DOMAIN MergedValues(name) <=> Reporting(docs, name, "min") # {}
                /\ "max" \in DOMAIN MergedValues(name) <=> Reporting(docs, name, "max") # {}
                /\ Reporting(docs, name, "min") # {} =>
                       IsNumber(MergedValues(name)["min"], Least(FieldSet(docs, name, "min")), 1)
                /\ Reporting(docs, name, "max") # {} =>
                       IsNumber(MergedValues(name)["max"], Greatest(FieldSet(docs, name, "max")), 1)

\* the extremes are in the first document: a negative min and a max of 0
ExtremaAreGlobalWitness ==
    /\ Returned
    /\ Len(docs) = 2
    /\ "req_dur" \in NamesOf(docs[1]) /\ "req_dur" \in NamesOf(docs[2])
    /\ DeclaredType(docs, "req_dur") = "trend"
    /\ ValuesOf(docs[1], "req_dur") = [min |-> -3, max |-> 0]
    /\ ValuesOf(docs[2], "req_dur") = [min |-> 4, max |-> -3]
    /\ MergedValues("req_dur") = [min |-> Num(-3), max |-> Num(0)]

-----------------------------------------------------------------------------
(* C7: for a metric not introduced as a gauge, each of avg, med, p(90),     *)
(* p(95) and value is in the merged values exactly when some document       *)
(* reported it, and is then the sum of the reported values divided by the   *)
(* number of documents that reported that field, each field on its own.     *)

MeansOverReporters ==
    Returned =>
        \A name \in AllNames(docs) :
            DeclaredType(docs, name) # "gauge" =>
                \A f \in {"avg", "med", "p(90)", "p(95)", "value"} :
                    /\ f \in DOMAIN MergedValues(name) <=> Reporting(docs, name, f) # {}
                    /\ Reporting(docs, name, f) # {} =>
                           IsNumber(MergedValues(name)[f],
                                    FieldSum(docs, name, f, Reporting(docs, name, f)),
                                    Cardinality(Reporting(docs, name, f)))

\* avg is reported by both documents, the other four fields by one only
MeansOverReportersWitness ==
    /\ Returned
    /\ Len(docs) = 2
    /\ "req_dur" \in NamesOf(docs[1]) /\ "req_dur" \in NamesOf(docs[2])
    /\ DeclaredType(docs, "req_dur") = "trend"
    /\ ValuesOf(docs[1], "req_dur")
         = [avg |-> 1, med |-> 2, value |-> 5] @@ ("p(90)" :> 3) @@ ("p(95)" :> 4)
    /\ ValuesOf(docs[2], "req_dur") = [avg |-> 4]
    /\ MergedValues("req_dur")
         = [avg |-> [num |-> 5, den |-> 2], med |-> Num(2), value |-> Num(5)]
             @@ ("p(90)" :> Num(3)) @@ ("p(95)" :> Num(4))

-----------------------------------------------------------------------------
\* the state of the first document
FirstState == Get(docs[1], "state", EmptyDict)

(* C8: the merged state.testRunDurationMs is the largest duration, in       *)
(* milliseconds, that any document of the batch reports (0 for a document   *)
(* without the field or without state), hence not negative and not below    *)
(* any document's duration; every other key of state, and root_group and    *)
(* options, are the first document's, whatever the later documents hold.    *)

DurationIsMaxFrameKept ==
    Returned =>
        /\ merged.state["testRunDurationMs"] = LongestDuration(docs)
        /\ merged.state["testRunDurationMs"] >= 0
        /\ \A i \in 1..Len(docs) : merged.state["testRunDurationMs"] >= DurationOf(docs[i])
        /\ DOMAIN merged.state = DOMAIN FirstState \cup {"testRunDurationMs"}
        /\ \A k \in DOMAIN FirstState \ {"testRunDurationMs"} :
               merged.state[k] = FirstState[k]
        /\ merged.root_group = Get(docs[1], "root_group", EmptyDict)
        /\ merged.options = Get(docs[1], "options", EmptyDict)

\* the longer run is the second document, which differs in every other section
DurationIsMaxFrameKeptWitness ==
    /\ Returned
    /\ Len(docs) = 2
    /\ FirstState = [testRunDurationMs |-> 500, isStdOutTTY |-> "true"]
    /\ Get(docs[2], "state", EmptyDict) = [testRunDurationMs |-> 2000, isStdOutTTY |-> "false"]
    /\ Get(docs[1], "root_group", EmptyDict) = [name |-> "A"]
    /\ Get(docs[2], "root_group", EmptyDict) = [name |-> "B"]
    /\ "options" \notin DOMAIN docs[2]
    /\ merged.state = [testRunDurationMs |-> 2000, isStdOutTTY |-> "true"]
    /\ merged.root_group = [name |-> "A"]
    /\ merged.options = [noColor |-> "true"]

-----------------------------------------------------------------------------
\* where a name stands in a document
PositionIn(doc, name) ==
    LET ms == Get(doc, "metrics", <<>>)
    IN  CHOOSE j \in 1..Len(ms) : ms[j].name = name

\* name a is first met before name b
MetBefore(ds, a, b) ==
    \/ Introducer(ds, a) < Introducer(ds, b)
    \/ /\ Introducer(ds, a) = Introducer(ds, b)
       /\ PositionIn(ds[Introducer(ds, a)], a) < PositionIn(ds[Introducer(ds, b)], b)

(* C10: the merged metrics hold one entry per distinct metric name of the   *)
(* batch, in the order in which the names are first met scanning the        *)
(* documents in order; an entry's type and contains are those of the first  *)
(* document that introduces the name, and that type alone decides whether   *)
(* the values of all documents are summed as a gauge or merged by the       *)
(* generic rules, whatever type a later document declares.                  *)

RegistryFirstSeen ==
    Returned =>
        /\ MergedNames = AllNames(docs)
        /\ \A k, l \in 1..Len(merged.metrics) :
               k < l => /\ merged.metrics[k].name # merged.metrics[l].name
                        /\ MetBefore(docs, merged.metrics[k].name, merged.metrics[l].name)
        /\ \A name \in AllNames(docs) :
               /\ MergedEntry(name).type = DeclaredType(docs, name)
               /\ MergedEntry(name).contains = DeclaredContains(docs, name)
               /\ IF DeclaredType(docs, name) = "gauge"
                  THEN /\ IsNumber(MergedValues(name)["min"],
                                   FieldSum(docs, name, "min", Carriers(docs, name)), 1)
                       /\ IsNumber(MergedValues(name)["value"],
                                   FieldSum(docs, name, "value", Carriers(docs, name)), 1)
                       /\ "count" \notin DOMAIN MergedValues(name)
                  ELSE /\ Reporting(docs, name, "min") # {} =>
                              IsNumber(MergedValues(name)["min"],
                                       Least(FieldSet(docs, name, "min")), 1)
                       /\ Reporting(docs, name, "value") # {} =>
                              IsNumber(MergedValues(name)["value"],
                                       FieldSum(docs, name, "value", Reporting(docs, name, "value")),
                                       Cardinality(Reporting(docs, name, "value")))
                       /\ "count" \in DOMAIN MergedValues(name)
                              <=> Reporting(docs, name, "count") # {}

\* the two documents list the names in opposite orders and swap their types
RegistryFirstSeenWitness ==
    /\ Returned
    /\ Len(docs) = 2
    /\ NamesOf(docs[1]) = {"reqs", "vus"} /\ NamesOf(docs[2]) = {"reqs", "vus"}
    /\ PositionIn(docs[1], "reqs") = 1 /\ PositionIn(docs[2], "reqs") = 2
    /\ Get(EntryOf(docs[1], "reqs"), "type", "") = "counter"
    /\ Get(EntryOf(docs[1], "vus"), "type", "") = "gauge"
    /\ Get(EntryOf(docs[2], "reqs"), "type", "") = "gauge"
    /\ Get(EntryOf(docs[2], "vus"), "type", "") = "counter"
    /\ Len(merged.metrics) = 2
    /\ merged.metrics[1].name = "reqs" /\ merged.metrics[2].name = "vus"
    /\ merged.metrics[1].data.type = "counter" /\ merged.metrics[1].data.contains = "time"
    /\ merged.metrics[2].data.type = "gauge" /\ merged.metrics[2].data.contains = "default"
    /\ merged.metrics[1].data.values["min"] = Num(1)
    /\ merged.metrics[2].data.values["min"] = Num(3)

-----------------------------------------------------------------------------
\* batches that differ from a batch only in the unknown keys of values
Restrict(d, keys) == [k \in DOMAIN d \cap keys |-> d[k]]

\* the entry with its values changed by F, when it has values
MapValues(m_data, F(_)) ==
    IF "values" \in DOMAIN m_data
    THEN [k \in DOMAIN m_data |-> IF k = "values" THEN F(m_data[k]) ELSE m_data[k]]
    ELSE m_data

MapDocValues(doc, F(_)) ==
    IF "metrics" \in DOMAIN doc
    THEN [k \in DOMAIN doc |->
             IF k = "metrics"
             THEN [j \in 1..Len(doc[k]) |->
                      [name |-> doc[k][j].name, data |-> MapValues(doc[k][j].data, F)]]
             ELSE doc[k]]
    ELSE doc

Known(values) == Restrict(values, RecognizedKeys)

Injected(values) == Put(values, "injected", 9)

\* the batch with the unknown keys removed from the documents I
WithoutUnknown(ds, I) ==
    [i \in 1..Len(ds) |-> IF i \in I THEN MapDocValues(ds[i], Known) ELSE ds[i]]

\* the batch with an unknown key added to the documents I
WithUnknown(ds, I) ==
    [i \in 1..Len(ds) |-> IF i \in I THEN MapDocValues(ds[i], Injected) ELSE ds[i]]

(* C9: on a batch whose documents may lack state, the duration, metrics, a  *)
(* metric's type, contains or values, or any field of values, and may       *)
(* carry unknown keys in values, the merge raises nothing and runs to its   *)
(* return; the merged metrics have an entry for every metric name of the    *)
(* batch; no unknown key is in the output, and removing the unknown keys    *)
(* from, or adding one to, any of the documents changes nothing in the      *)
(* merged document.                                                         *)

PermissiveMerge ==
    /\ pc # "raised"
    /\ ~raised
    /\ pc # "done" => ENABLED Next
    /\ Returned =>
           /\ MergedNames = AllNames(docs)
           /\ \A name \in AllNames(docs) : DOMAIN MergedValues(name) \subseteq RecognizedKeys
           /\ \A I \in SUBSET (1..Len(docs)) :
                  /\ CombineAllDocs(WithoutUnknown(docs, I)) = merged
                  /\ CombineAllDocs(WithUnknown(docs, I)) = merged

\* a document without state, type or contains and with an unknown key, then one
\* whose entry is empty
PermissiveMergeWitness ==
    /\ Returned
    /\ Len(docs) = 2
    /\ DOMAIN docs[1] = {"metrics"}
    /\ "reqs" \in NamesOf(docs[1]) /\ "reqs" \in NamesOf(docs[2])
    /\ EntryOf(docs[1], "reqs") = ("values" :> [count |-> 100, thresholds |-> 1])
    /\ EntryOf(docs[2], "reqs") = EmptyDict
    /\ MergedEntry("reqs") = [type |-> "", contains |-> "", values |-> [count |-> Num(100)]]
    /\ merged.state = [testRunDurationMs |-> 1000]

-----------------------------------------------------------------------------
\* the values of a name in a merged document
ValuesIn(m, name) ==
    m.metrics[CHOOSE k \in 1..Len(m.metrics) : m.metrics[k].name = name].data.values

\* the merged numbers mv are the document's numbers dv on the keys given
SameOn(mv, dv, keys) == \A k \in keys : IsNumber(mv[k], dv[k], 1)

RateOfOne(d, name) ==
    /\ "rate" \in DOMAIN MergedValues(name)
           <=> /\ Get(EntryOf(d, name), "type", "") = "counter"
               /\ "count" \in DOMAIN ValuesOf(d, name)
               /\ DurationOf(d) > 0
    /\ "rate" \in DOMAIN MergedValues(name) =>
           IsNumber(MergedValues(name)["rate"], ValuesOf(d, name)["count"] * 1000, DurationOf(d))

(* C3 as claimed: merging [d] gives, for every metric of d, the values      *)
(* mapping of d apart from rate, the rate being computed from d's own count *)
(* and duration, and gives d's duration.                                    *)

SingleIdentityAsClaimed ==
    (Returned /\ Len(docs) = 1) =>
        /\ MergedNames = NamesOf(docs[1])
        /\ merged.state["testRunDurationMs"] = DurationOf(docs[1])
        /\ \A name \in NamesOf(docs[1]) :
               /\ DOMAIN MergedValues(name) \ {"rate"} = DOMAIN ValuesOf(docs[1], name) \ {"rate"}
               /\ SameOn(MergedValues(name), ValuesOf(docs[1], name),
                         DOMAIN ValuesOf(docs[1], name) \ {"rate"})
               /\ RateOfOne(docs[1], name)

(* C3 as amended: the values are reproduced on the recognized keys other    *)
(* than rate for a metric that is not a gauge, unknown keys being dropped;  *)
(* a gauge yields exactly min, max and value, each d's field or 0 when d    *)
(* lacks it; the rate is computed from d's own count and duration; the      *)
(* duration is d's, 0 when d reports none.                                  *)

SingleIdentity ==
    (Returned /\ Len(docs) = 1) =>
        /\ MergedNames = NamesOf(docs[1])
        /\ merged.state["testRunDurationMs"] = DurationOf(docs[1])
        /\ \A name \in NamesOf(docs[1]) :
               IF Get(EntryOf(docs[1], name), "type", "") = "gauge"
               THEN /\ DOMAIN MergedValues(name) = {"min", "max", "value"}
                    /\ \A f \in {"min", "max", "value"} :
                           IsNumber(MergedValues(name)[f], Get(ValuesOf(docs[1], name), f, 0), 1)
               ELSE /\ DOMAIN MergedValues(name) \ {"rate"}
                           = (DOMAIN ValuesOf(docs[1], name) \cap RecognizedKeys) \ {"rate"}
                    /\ SameOn(MergedValues(name), ValuesOf(docs[1], name),
                              (DOMAIN ValuesOf(docs[1], name) \cap RecognizedKeys) \ {"rate"})
                    /\ RateOfOne(docs[1], name)

\* a counter with a count, an unknown key and a duration: count kept, rate derived
SingleIdentityWitness ==
    /\ Returned
    /\ Len(docs) = 1
    /\ DurationOf(docs[1]) = 3000
    /\ NamesOf(docs[1]) = {"m"}
    /\ Get(EntryOf(docs[1], "m"), "type", "") = "counter"
    /\ ValuesOf(docs[1], "m") = [count |-> 3, thresholds |-> 3]
    /\ MergedValues("m") = [count |-> Num(3), rate |-> Num(1)]
    /\ merged.state = [testRunDurationMs |-> 3000, isStdOutTTY |-> "true"]

-----------------------------------------------------------------------------
\* the merged number r is twice the merged number q
IsTwice(r, q) == r.num * q.den = 2 * q.num * r.den

DoublesFor(name) ==
    LET once == CombineAllDocs(<<docs[1]>>)
    IN  /\ "count" \in DOMAIN ValuesIn(once, name)
        /\ "count" \in DOMAIN MergedValues(name)
        /\ IsTwice(MergedValues(name)["count"], ValuesIn(once, name)["count"])
        /\ merged.state["testRunDurationMs"] = once.state["testRunDurationMs"]
        /\ "rate" \in DOMAIN ValuesIn(once, name) =>
               /\ "rate" \in DOMAIN MergedValues(name)
               /\ IsTwice(MergedValues(name)["rate"], ValuesIn(once, name)["rate"])

(* C4 as claimed: for every metric of d that reports count, merging [d, d]  *)
(* yields twice the count of merging [d], the same duration, and twice the  *)
(* rate whenever merging [d] emits one.                                     *)

DuplicationDoublesAsClaimed ==
    (Returned /\ Len(docs) = 2 /\ docs[1] = docs[2]) =>
        \A name \in NamesOf(docs[1]) :
            "count" \in DOMAIN ValuesOf(docs[1], name) => DoublesFor(name)

(* C4 as amended: the same, for every metric of d that is not typed gauge   *)
(* and reports count.                                                       *)

DuplicationDoubles ==
    (Returned /\ Len(docs) = 2 /\ docs[1] = docs[2]) =>
        \A name \in NamesOf(docs[1]) :
            (/\ Get(EntryOf(docs[1], name), "type", "") # "gauge"
             /\ "count" \in DOMAIN ValuesOf(docs[1], name)) => DoublesFor(name)

\* a counter with count 3 over 3 seconds, twice: count 6 and rate 2 against 3 and 1
DuplicationDoublesWitness ==
    /\ Returned
    /\ Len(docs) = 2 /\ docs[1] = docs[2]
    /\ DurationOf(docs[1]) = 3000
    /\ NamesOf(docs[1]) = {"m"}
    /\ Get(EntryOf(docs[1], "m"), "type", "") = "counter"
    /\ ValuesOf(docs[1], "m") = [count |-> 3]
    /\ ValuesIn(CombineAllDocs(<<docs[1]>>), "m") = [count |-> Num(3), rate |-> Num(1)]
    /\ MergedValues("m") = [count |-> Num(6), rate |-> Num(2)]
    /\ merged.state["testRunDurationMs"] = 3000

=============================================================================
